---- MODULE Spec2Model ----
(***************************************************************************)
(* Taleemabad financial model: the cash-flow engine (CashFlowModel), the    *)
(* scenario engine (ScenarioModel) and the sensitivity engine              *)
(* (SensitivityModel) over the 2026 budget dataset.                        *)
(*                                                                         *)
(* Money is integer dollars in the cash-flow engine.  The scenario engine  *)
(* multiplies dollars by float multipliers; those are kept exactly as      *)
(* fixed-point numbers: revenue_multiplier and grant_probability in tenths *)
(* (RevUnit, ProbUnit), expense_multiplier in hundredths (ExpUnit), so     *)
(* every amount the scenario engine handles is in hundredths of a dollar   *)
(* (Scale = RevUnit * ProbUnit = ExpUnit).                                 *)
(***************************************************************************)
EXTENDS Integers, Sequences, FiniteSets, TLC

VARIABLES
    cf_pc,          \* "none" before a CashFlowModel exists, "built" after __init__
    cf_args,        \* the arguments the CashFlowModel was constructed with
    cf,             \* the CashFlowModel instance: opening_balance, inflows, expenses, positions
    cf_ret,         \* the last accessor call on cf and the value it returned
    base_inflows,   \* ScenarioModel.base_inflows
    base_expenses,  \* ScenarioModel.base_expenses
    scenarios,      \* ScenarioModel.scenarios: a dict in insertion order
    ret,            \* the last ScenarioModel call, its arguments and the value it returned
    ran_all,        \* history: run_all_scenarios has been executed on this instance
    ncalls,         \* number of ScenarioModel calls made so far
    sens,           \* the SensitivityModel instance: base_inflows, base_expenses, base_surplus, base_model, base_runway
    search,         \* the call of find_break_even_point in progress: its arguments and locals
    removal         \* the last simulate_grant_removal call, its argument and the value it returned

cf_vars == <<cf_pc, cf_args, cf, cf_ret>>
sm_vars == <<base_inflows, base_expenses, scenarios, ret, ran_all, ncalls>>
se_vars == <<sens, search>>
ut_vars == <<removal>>
vars == <<cf_pc, cf_args, cf, cf_ret, base_inflows, base_expenses, scenarios, ret, ran_all, ncalls,
          sens, search, removal>>

---------------------------------------------------------------------------
(* Bounds of the model *)

\* largest amount in a caller-supplied inflow or expense map
MaxAmt == 2
\* longest sequence of ScenarioModel calls explored on one instance
MaxCalls == 3
\* number of run_scenario calls with arbitrary arguments explored on one instance
MaxRuns == 1
\* most run_scenario calls interleaved with sensitivity operations
MaxEngineCalls == 2
\* most iterations explored of one find_break_even_point loop
MaxIter == 12
\* largest months_delayed, in either direction, passed to analyze_revenue_delay
MaxDelay == 13

---------------------------------------------------------------------------
(* data/budget_2026.py *)

MONTHS == <<"Jan", "Feb", "Mar", "Apr", "May", "Jun", "Jul", "Aug", "Sep", "Oct", "Nov", "Dec">>

MonthSet == {MONTHS[i] : i \in 1..Len(MONTHS)}

OPENING_BALANCE == 723248

MONTHLY_INFLOWS ==
    [Jan |-> 206953, Feb |-> 945846, Mar |-> 1123, Apr |-> 897182,
     May |-> 1123, Jun |-> 223066, Jul |-> 25313, Aug |-> 18841,
     Sep |-> 18841, Oct |-> 25313, Nov |-> 518841, Dec |-> 218841]

MONTHLY_EXPENSES ==
    [Jan |-> 257913, Feb |-> 222948, Mar |-> 233955, Apr |-> 250107,
     May |-> 213767, Jun |-> 212442, Jul |-> 192577, Aug |-> 205969,
     Sep |-> 208570, Oct |-> 188213, Nov |-> 187948, Dec |-> 184945]

PROJECTED_SURPLUS == 1265175

TOTAL_GRANT_INCOME == 2300000

GRANT_INCOME ==
    [prevail_general_ops |-> [amount |-> 500000, timing |-> [Feb |-> 250000, Nov |-> 250000]],
     prevail_implementation |-> [amount |-> 250000, timing |-> [Feb |-> 250000]],
     prevail_data_collection |-> [amount |-> 200000, timing |-> [Feb |-> 200000]],
     dovetail |-> [amount |-> 400000, timing |-> [Jan |-> 200000, Dec |-> 200000]],
     mulago |-> [amount |-> 950000, timing |-> [Apr |-> 700000, Nov |-> 250000]],
     niete_ict |-> [amount |-> 638535, timing |-> [Feb |-> 244723, Apr |-> 189587, Jun |-> 204225]]]

---------------------------------------------------------------------------
(* Python dict and Optional helpers *)

\* Optional[T]: None, or a supplied value
None == [given |-> FALSE]
Some(v) == [given |-> TRUE, val |-> v]

\* dict.get(key, default)
DictGet(d, key, default) == IF key \in DOMAIN d THEN d[key] ELSE default

\* sum(d.values())
RECURSIVE SumOver(_, _)
SumOver(d, keys) ==
    IF keys = {} THEN 0
    ELSE LET k == CHOOSE x \in keys : TRUE
         IN d[k] + SumOver(d, keys \ {k})

SumValues(d) == SumOver(d, DOMAIN d)

\* `x or default` on an Optional[Dict]: None and the empty dict are both falsy
OrDefault(opt, default) ==
    IF opt.given /\ DOMAIN opt.val # {} THEN opt.val ELSE default

\* exact quotient a / b, kept unevaluated
Quot(a, b) == [num |-> a, den |-> b]
Infinity == [inf |-> TRUE]

---------------------------------------------------------------------------
(* models/cashflow_model.py: CashFlowModel *)

MonthlyPosition(month, opening, inflows, outflows, closing, cumulative) ==
    [month |-> month, opening |-> opening, inflows |-> inflows,
     outflows |-> outflows, closing |-> closing, cumulative |-> cumulative]

\* one iteration of the loop of _calculate_positions, for the month `month`
\* entered with `cumulative`
PositionStepNoOutflow(month, cumulative, inflows, expenses) ==
    LET opening == cumulative
        month_inflows == DictGet(inflows, month, 0)
        month_outflows == DictGet(expenses, month, 0)
        closing == opening + month_inflows
    IN MonthlyPosition(month, opening, month_inflows, month_outflows, closing, closing)

PositionStep(month, cumulative, inflows, expenses) ==
    LET opening == cumulative
        month_inflows == DictGet(inflows, month, 0)
        month_outflows == DictGet(expenses, month, 0)
        closing == opening + month_inflows - month_outflows
    IN MonthlyPosition(month, opening, month_inflows, month_outflows, closing, closing)

\* the loop of _calculate_positions from month index i on, `cumulative` carried over
RECURSIVE CalcFrom(_, _, _, _)
CalcFrom(i, cumulative, inflows, expenses) ==
    IF i > Len(MONTHS) THEN <<>>
    ELSE LET pos == PositionStep(MONTHS[i], cumulative, inflows, expenses)
         IN <<pos>> \o CalcFrom(i + 1, pos.cumulative, inflows, expenses)

CalculatePositions(opening_balance, inflows, expenses) ==
    CalcFrom(1, opening_balance, inflows, expenses)

\* CashFlowModel.__init__
NewCashFlowModel(opening_balance, inflows, expenses) ==
    LET self_inflows == OrDefault(inflows, MONTHLY_INFLOWS)
        self_expenses == OrDefault(expenses, MONTHLY_EXPENSES)
    IN [opening_balance |-> opening_balance,
        inflows |-> self_inflows,
        expenses |-> self_expenses,
        positions |-> CalculatePositions(opening_balance, self_inflows, self_expenses)]

get_year_end_position(self) ==
    IF self.positions # <<>> THEN self.positions[Len(self.positions)].closing ELSE 0

get_total_inflows(self) == SumValues(self.inflows)

get_total_outflows(self) == SumValues(self.expenses)

get_net_cash_flow(self) == get_total_inflows(self) - get_total_outflows(self)

get_average_monthly_burn(self) == Quot(get_total_outflows(self), 12)

\* a scan replacing the kept item also when the next key equals the kept one
ReplacesKeptOnTie(next_key, kept_key) == next_key <= kept_key

\* the comparison of min(): the next item replaces the kept one only when
\* its key is strictly smaller
ReplacesKept(next_key, kept_key) == next_key < kept_key

\* the scan of min(self.positions, key=lambda p: p.closing) from index i on,
\* `kept` being the least item so far
RECURSIVE MinScan(_, _, _)
MinScan(kept, ps, i) ==
    IF i > Len(ps) THEN kept
    ELSE MinScan(IF ReplacesKept(ps[i].closing, kept.closing) THEN ps[i] ELSE kept, ps, i + 1)

\* min(self.positions, key=closing): the first position with the least closing
get_minimum_cash_month(self) == MinScan(self.positions[1], self.positions, 2)

\* get_low_cash_months: the positions, in calendar order, closing below threshold
get_low_cash_months(self, threshold) ==
    SelectSeq(self.positions, LAMBDA p : p.closing < threshold)

\* get_position: the position of `month`, None when no position has that name
get_position(self, month) ==
    LET ps == self.positions
    IN IF \E i \in 1..Len(ps) : ps[i].month = month
       THEN Some(ps[CHOOSE i \in 1..Len(ps) : ps[i].month = month])
       ELSE None

\* `burn_rate or default`: None and 0 are both falsy
BurnOrDefault(burn_rate, default) ==
    IF burn_rate.given /\ burn_rate.val # 0 THEN Quot(burn_rate.val, 1) ELSE default

\* get_runway_at_month: a supplied burn rate b is carried as the quotient b / 1
get_runway_at_month(self, month, burn_rate) ==
    LET position == get_position(self, month)
        burn == BurnOrDefault(burn_rate, get_average_monthly_burn(self))
    IN IF ~position.given THEN 0
       ELSE IF burn.num <= 0 THEN Infinity
       ELSE Quot(position.val.closing, burn)

---------------------------------------------------------------------------
(* models/sensitivity_model.py: SensitivityModel.__init__ *)

NewSensitivityModel ==
    LET base_model == NewCashFlowModel(OPENING_BALANCE, None, None)
    IN [base_inflows |-> MONTHLY_INFLOWS,
        base_expenses |-> MONTHLY_EXPENSES,
        base_surplus |-> PROJECTED_SURPLUS,
        base_model |-> base_model,
        base_runway |-> Quot(get_year_end_position(base_model),
                             get_average_monthly_burn(base_model))]

\* no call of find_break_even_point is in progress
NoSearch == [pc |-> "idle"]

---------------------------------------------------------------------------
(* The cash-flow engine as a state machine: a caller constructs a          *)
(* CashFlowModel from arguments of its choice and then calls accessors.    *)

\* keys a caller-supplied map may carry: calendar months and one key that
\* is no calendar month
InflowArgKeys == {"Jan", "Dec", "Foo"}
ExpenseArgKeys == {"Jun", "Dec", "Foo"}

ArgMaps(keys) == UNION {[S -> 0..MaxAmt] : S \in SUBSET keys}

OptArgMaps(keys) == {None} \cup {Some(m) : m \in ArgMaps(keys)}

ArgOpenings == (0..MaxAmt) \cup {OPENING_BALANCE}

NoModel == [opening_balance |-> 0, inflows |-> <<>>, expenses |-> <<>>, positions |-> <<>>]
NoArgs == [opening_balance |-> 0, inflows |-> None, expenses |-> None]
NoRet == [op |-> "none"]

\* CashFlowModel(opening_balance, inflows, expenses)
Construct ==
    /\ cf_pc = "none"
    /\ \E ob \in ArgOpenings, inf \in OptArgMaps(InflowArgKeys), ex \in OptArgMaps(ExpenseArgKeys) :
        /\ cf_pc' = "built"
        /\ cf_args' = [opening_balance |-> ob, inflows |-> inf, expenses |-> ex]
        /\ cf' = NewCashFlowModel(ob, inf, ex)
        /\ cf_ret' = NoRet
        /\ UNCHANGED sm_vars
        /\ UNCHANGED se_vars
        /\ UNCHANGED ut_vars

GetYearEndPosition ==
    /\ cf_pc = "built"
    /\ cf_ret' = [op |-> "get_year_end_position", value |-> get_year_end_position(cf)]
    /\ UNCHANGED <<cf_pc, cf_args, cf>>
    /\ UNCHANGED sm_vars
    /\ UNCHANGED se_vars
    /\ UNCHANGED ut_vars

GetTotalInflows ==
    /\ cf_pc = "built"
    /\ cf_ret' = [op |-> "get_total_inflows", value |-> get_total_inflows(cf)]
    /\ UNCHANGED <<cf_pc, cf_args, cf>>
    /\ UNCHANGED sm_vars
    /\ UNCHANGED se_vars
    /\ UNCHANGED ut_vars

GetTotalOutflows ==
    /\ cf_pc = "built"
    /\ cf_ret' = [op |-> "get_total_outflows", value |-> get_total_outflows(cf)]
    /\ UNCHANGED <<cf_pc, cf_args, cf>>
    /\ UNCHANGED sm_vars
    /\ UNCHANGED se_vars
    /\ UNCHANGED ut_vars

GetNetCashFlow ==
    /\ cf_pc = "built"
    /\ cf_ret' = [op |-> "get_net_cash_flow", value |-> get_net_cash_flow(cf)]
    /\ UNCHANGED <<cf_pc, cf_args, cf>>
    /\ UNCHANGED sm_vars
    /\ UNCHANGED se_vars
    /\ UNCHANGED ut_vars

\* month names and burn rates a caller passes to get_runway_at_month
MonthArgs == {"Jan", "Dec", "Foo"}
BurnRateArgs == {None, Some(0), Some(-1), Some(2)}

GetRunwayAtMonth ==
    /\ cf_pc = "built"
    /\ \E month \in MonthArgs, burn_rate \in BurnRateArgs :
        cf_ret' = [op |-> "get_runway_at_month",
                   args |-> [month |-> month, burn_rate |-> burn_rate],
                   value |-> get_runway_at_month(cf, month, burn_rate)]
    /\ UNCHANGED <<cf_pc, cf_args, cf>>
    /\ UNCHANGED sm_vars
    /\ UNCHANGED se_vars
    /\ UNCHANGED ut_vars

GetMinimumCashMonth ==
    /\ cf_pc = "built"
    /\ cf_ret' = [op |-> "get_minimum_cash_month", value |-> get_minimum_cash_month(cf)]
    /\ UNCHANGED <<cf_pc, cf_args, cf>>
    /\ UNCHANGED sm_vars
    /\ UNCHANGED se_vars
    /\ UNCHANGED ut_vars

SmIdle ==
    /\ base_inflows = MONTHLY_INFLOWS
    /\ base_expenses = MONTHLY_EXPENSES
    /\ scenarios = <<>>
    /\ ret = NoRet
    /\ ran_all = FALSE
    /\ ncalls = 0

CfIdle ==
    /\ cf_pc = "none"
    /\ cf_args = NoArgs
    /\ cf = NoModel
    /\ cf_ret = NoRet

SeIdle ==
    /\ sens = NewSensitivityModel
    /\ search = NoSearch

UtIdle == removal = NoRet

InitCashFlow == CfIdle /\ SmIdle /\ SeIdle /\ UtIdle

NextCashFlow ==
    \/ Construct
    \/ GetYearEndPosition
    \/ GetTotalInflows
    \/ GetTotalOutflows
    \/ GetNetCashFlow

SpecCashFlow == InitCashFlow /\ [][NextCashFlow]_vars

\* a caller constructs a CashFlowModel and asks for the runway at a month
NextRunway ==
    \/ Construct
    \/ GetRunwayAtMonth

SpecRunway == InitCashFlow /\ [][NextRunway]_vars

\* a caller constructs a CashFlowModel and asks for the minimum-cash month
NextMinimum ==
    \/ Construct
    \/ GetMinimumCashMonth

SpecMinimum == InitCashFlow /\ [][NextMinimum]_vars

---------------------------------------------------------------------------
(* Properties of the cash-flow engine (checked under SpecCashFlow) *)

\* sum of a sequence of numbers
RECURSIVE SumSeq(_)
SumSeq(xs) == IF xs = <<>> THEN 0 ELSE Head(xs) + SumSeq(Tail(xs))

PositionInflows(ps) == [i \in 1..Len(ps) |-> ps[i].inflows]
PositionOutflows(ps) == [i \in 1..Len(ps) |-> ps[i].outflows]

\* C1: the 12 positions are in calendar order Jan..Dec; closing[i] =
\* opening[i] + inflow[i] - outflow[i]; opening[i+1] = closing[i]; and
\* opening[0] is the opening balance the model was constructed with.
C1_Accumulation ==
    cf_pc = "built" =>
        /\ [i \in 1..Len(cf.positions) |-> cf.positions[i].month] = MONTHS
        /\ \A i \in 1..12 :
              cf.positions[i].closing =
                  cf.positions[i].opening + cf.positions[i].inflows - cf.positions[i].outflows
        /\ \A i \in 1..11 : cf.positions[i + 1].opening = cf.positions[i].closing
        /\ cf.positions[1].opening = cf_args.opening_balance

\* a model built from maps with a December inflow, a June and a December
\* expense and a non-zero opening balance
C1_Witness ==
    /\ cf_pc = "built"
    /\ cf_args.opening_balance = 1
    /\ cf.positions[12].inflows = 2
    /\ cf.positions[6].outflows = 1
    /\ cf.positions[12].outflows = 2
    /\ cf.positions[12].closing = 0

\* C2: on the shipped dataset (the model constructed with all defaults),
\* get_year_end_position() returns 1265175, the projected surplus.
C2_BaseYearEnd ==
    (/\ cf_ret.op = "get_year_end_position"
     /\ cf_args = [opening_balance |-> OPENING_BALANCE, inflows |-> None, expenses |-> None])
        => cf_ret.value = PROJECTED_SURPLUS

\* C3: for any inflow and expense maps, extra or missing keys included,
\* get_total_inflows is the sum of the positions' inflows, get_total_outflows
\* the sum of the positions' outflows, the year-end position is opening +
\* total inflows - total outflows, and net cash flow is year-end - opening.
C3_AggregateConsistency ==
    cf_pc = "built" =>
        /\ get_total_inflows(cf) = SumSeq(PositionInflows(cf.positions))
        /\ get_total_outflows(cf) = SumSeq(PositionOutflows(cf.positions))
        /\ get_year_end_position(cf) =
              cf.opening_balance + get_total_inflows(cf) - get_total_outflows(cf)
        /\ get_net_cash_flow(cf) = get_year_end_position(cf) - cf.opening_balance

\* C4: a supplied map whose keys are any subset of the 12 months, the empty
\* map included, gives every absent month the flow 0 and every present month
\* its own figure.
C4_MissingMonthsZero ==
    cf_pc = "built" =>
        /\ (cf_args.inflows.given /\ DOMAIN cf_args.inflows.val \subseteq MonthSet) =>
              \A i \in 1..12 :
                  cf.positions[i].inflows = DictGet(cf_args.inflows.val, MONTHS[i], 0)
        /\ (cf_args.expenses.given /\ DOMAIN cf_args.expenses.val \subseteq MonthSet) =>
              \A i \in 1..12 :
                  cf.positions[i].outflows = DictGet(cf_args.expenses.val, MONTHS[i], 0)

(* Properties of get_runway_at_month (checked under SpecRunway) *)

\* C20: for a calendar month and the burn rate in effect (the supplied
\* burn_rate when one is supplied, a supplied 0 included, otherwise the
\* average monthly burn), get_runway_at_month returns the +infinity sentinel
\* when that burn rate is <= 0 and closing[month] / burn rate otherwise.
C20_RunwayAtMonth ==
    (cf_ret.op = "get_runway_at_month" /\ cf_ret.args.month \in MonthSet) =>
        LET in_effect == IF cf_ret.args.burn_rate.given
                         THEN Quot(cf_ret.args.burn_rate.val, 1)
                         ELSE Quot(get_total_outflows(cf), 12)
            closing == cf.positions[CHOOSE i \in 1..12 : MONTHS[i] = cf_ret.args.month].closing
        IN cf_ret.value = IF in_effect.num <= 0 THEN Infinity ELSE Quot(closing, in_effect)

---------------------------------------------------------------------------
(* models/scenario_model.py: ScenarioModel *)

\* fixed-point units of the float multipliers: the value that stands for 1.0
RevUnit == 10
ProbUnit == 10
ExpUnit == 100
Scale == RevUnit * ProbUnit

\* a dollar figure of the dataset as a fixed-point amount
ToFixed(dollars) == dollars * Scale

ScenarioType == {"base", "optimistic", "pessimistic", "custom"}

SCENARIO_PARAMS ==
    [base |-> [revenue_multiplier |-> RevUnit, expense_multiplier |-> ExpUnit,
               grant_probability |-> ProbUnit, name |-> "Base Case (Budget)"],
     optimistic |-> [revenue_multiplier |-> 12, expense_multiplier |-> 90,
                     grant_probability |-> 10, name |-> "Optimistic (Best Case)"],
     pessimistic |-> [revenue_multiplier |-> 7, expense_multiplier |-> 115,
                      grant_probability |-> 7, name |-> "Pessimistic (Worst Case)"]]

\* dict in insertion order: a sequence of [key, value] entries with distinct keys
DictKeys(d) == {d[i].key : i \in 1..Len(d)}

DictLookup(d, key) ==
    IF key \in DictKeys(d)
    THEN Some(d[CHOOSE i \in 1..Len(d) : d[i].key = key].value)
    ELSE None

\* d[key] = value: an existing key keeps its place, a new key goes last
DictStore(d, key, value) ==
    IF key \in DictKeys(d)
    THEN [i \in 1..Len(d) |-> IF d[i].key = key THEN [key |-> key, value |-> value] ELSE d[i]]
    ELSE Append(d, [key |-> key, value |-> value])

OverrideTruthy(default, opt) == IF opt.given /\ opt.val # 0 THEN opt.val ELSE default

\* `if x is not None: params[field] = x`
Override(default, opt) == IF opt.given THEN opt.val ELSE default

\* params of run_scenario after the defaults lookup and the overrides
EffectiveParams(scenario_type, revenue_multiplier, expense_multiplier, grant_probability) ==
    LET params == DictGet(SCENARIO_PARAMS, scenario_type, SCENARIO_PARAMS["base"])
    IN [params EXCEPT
          !.revenue_multiplier = Override(@, revenue_multiplier),
          !.expense_multiplier = Override(@, expense_multiplier),
          !.grant_probability = Override(@, grant_probability)]

AdjustInflowNoProbability(amount, rev, prob) == amount * rev * ProbUnit

\* amount * params["revenue_multiplier"] * params["grant_probability"]
AdjustInflow(amount, rev, prob) == amount * rev * prob

\* amount * params["expense_multiplier"]
AdjustExpenseUnscaled(amount, exp) == amount * ExpUnit

AdjustExpense(amount, exp) == amount * exp

\* for month, amount in grant_timing.items(): if month in adjusted: adjusted[month] -= amount
SubtractTiming(adjusted, timing) ==
    [m \in DOMAIN adjusted |->
        adjusted[m] - (IF m \in DOMAIN timing THEN ToFixed(timing[m]) ELSE 0)]

RECURSIVE ExcludeEach(_, _)
\* for grant_key in excluded_grants: if grant_key in GRANT_INCOME: ...
ExcludeEach(adjusted, keys) ==
    IF keys = <<>> THEN adjusted
    ELSE ExcludeEach(
            IF Head(keys) \in DOMAIN GRANT_INCOME
            THEN SubtractTiming(adjusted, GRANT_INCOME[Head(keys)].timing)
            ELSE adjusted,
            Tail(keys))

ExcludeFirstOnly(adjusted, excluded_grants) ==
    IF excluded_grants.given /\ excluded_grants.val # <<>>
    THEN ExcludeEach(adjusted, <<Head(excluded_grants.val)>>)
    ELSE adjusted

\* `if excluded_grants:` and the loop over the list
ExcludeGrants(adjusted, excluded_grants) ==
    IF excluded_grants.given /\ excluded_grants.val # <<>>
    THEN ExcludeEach(adjusted, excluded_grants.val)
    ELSE adjusted

\* avg_burn > 0
Positive(q) == q.num > 0

\* the CashFlowModel run_scenario builds from the adjusted maps
ScenarioCashFlow(binf, bexp, params, excluded_grants) ==
    LET scaled == [m \in DOMAIN binf |->
                      AdjustInflow(binf[m], params.revenue_multiplier, params.grant_probability)]
        adjusted_inflows == ExcludeGrants(scaled, excluded_grants)
        adjusted_expenses == [m \in DOMAIN bexp |->
                                 AdjustExpense(bexp[m], params.expense_multiplier)]
    IN NewCashFlowModel(ToFixed(OPENING_BALANCE), Some(adjusted_inflows), Some(adjusted_expenses))

\* the ScenarioResult run_scenario builds from that model
ScenarioResult(scenario_type, params, model) ==
    LET min_position == get_minimum_cash_month(model)
        avg_burn == get_average_monthly_burn(model)
    IN [scenario_type |-> scenario_type,
        name |-> DictGet(params, "name", "Custom Scenario"),
        total_inflows |-> get_total_inflows(model),
        total_expenses |-> get_total_outflows(model),
        year_end_surplus |-> get_year_end_position(model),
        minimum_cash |-> min_position.closing,
        minimum_cash_month |-> min_position.month,
        runway_months |-> IF Positive(avg_burn)
                          THEN Quot(get_year_end_position(model), avg_burn)
                          ELSE Infinity,
        assumptions |-> [revenue_multiplier |-> params.revenue_multiplier,
                         expense_multiplier |-> params.expense_multiplier,
                         grant_probability |-> params.grant_probability]]

\* the value run_scenario returns
run_scenario(binf, bexp, a) ==
    LET params == EffectiveParams(a.scenario_type, a.revenue_multiplier,
                                  a.expense_multiplier, a.grant_probability)
    IN ScenarioResult(a.scenario_type, params,
                      ScenarioCashFlow(binf, bexp, params, a.excluded_grants))

StoreResultEvicting(cache, scenario_type, result) ==
    <<[key |-> scenario_type, value |-> result]>>

\* self.scenarios[scenario_type] = result
StoreResult(cache, scenario_type, result) == DictStore(cache, scenario_type, result)

\* arguments of a run_scenario call
RunArgs(scenario_type, rev, exp, prob, excl) ==
    [scenario_type |-> scenario_type, revenue_multiplier |-> rev,
     expense_multiplier |-> exp, grant_probability |-> prob, excluded_grants |-> excl]

DefaultArgs(scenario_type) == RunArgs(scenario_type, None, None, None, None)

RECURSIVE RunEach(_, _, _, _)
\* the loop of run_all_scenarios: the cache after running each kind in turn
RunEach(cache, binf, bexp, kinds) ==
    IF kinds = <<>> THEN cache
    ELSE RunEach(StoreResult(cache, Head(kinds), run_scenario(binf, bexp, DefaultArgs(Head(kinds)))),
                 binf, bexp, Tail(kinds))

\* the cache after run_all_scenarios, which is also what it returns
run_all_scenarios(cache, binf, bexp) ==
    RunEach(cache, binf, bexp, <<"base", "optimistic", "pessimistic">>)

Figures(result) ==
    [total_inflows |-> result.total_inflows,
     total_expenses |-> result.total_expenses,
     year_end_surplus |-> result.year_end_surplus,
     minimum_cash |-> result.minimum_cash,
     minimum_cash_month |-> result.minimum_cash_month,
     runway_months |-> result.runway_months]

RECURSIVE CompareEach(_, _)
\* the loop of compare_scenarios: comparison[result.name] = {...} for each
\* cached result in insertion order, a later entry replacing an earlier one
CompareEach(comparison, entries) ==
    IF entries = <<>> THEN comparison
    ELSE CompareEach((Head(entries).value.name :> Figures(Head(entries).value)) @@ comparison,
                     Tail(entries))

compare_scenarios(cache) == CompareEach(<<>>, cache)

RECURSIVE CashFlowsEach(_, _, _, _)
\* the loop of get_scenario_cash_flows: for each cached entry in insertion
\* order the model is run again with the SCENARIO_PARAMS of the entry's
\* kind, and its closings are stored under the cached result's name
CashFlowsEach(cash_flows, entries, binf, bexp) ==
    IF entries = <<>> THEN cash_flows
    ELSE LET scenario_type == Head(entries).key
             result == Head(entries).value
             params == DictGet(SCENARIO_PARAMS, scenario_type, SCENARIO_PARAMS["base"])
             adjusted_inflows ==
                 [m \in DOMAIN binf |->
                     AdjustInflow(binf[m], params.revenue_multiplier,
                                  DictGet(params, "grant_probability", ProbUnit))]
             adjusted_expenses ==
                 [m \in DOMAIN bexp |-> AdjustExpense(bexp[m], params.expense_multiplier)]
             model == NewCashFlowModel(ToFixed(OPENING_BALANCE), Some(adjusted_inflows),
                                       Some(adjusted_expenses))
             closings == [m \in {model.positions[i].month : i \in 1..Len(model.positions)} |->
                             get_position(model, m).val.closing]
         IN CashFlowsEach((result.name :> closings) @@ cash_flows, Tail(entries), binf, bexp)

get_scenario_cash_flows(cache, binf, bexp) == CashFlowsEach(<<>>, cache, binf, bexp)

---------------------------------------------------------------------------
(* The scenario engine as a state machine: calls on one ScenarioModel. *)

\* arguments of the run_scenario calls explored in call sequences
SeqRunArgs ==
    {RunArgs(k, rev, None, None, excl) :
        k \in ScenarioType, rev \in {None, Some(5)}, excl \in {None, Some(<<"mulago">>)}}

\* arguments of the run_scenario calls explored singly: every kind, every
\* combination of supplied and omitted multipliers, several grant lists
AnyRunArgs ==
    {RunArgs(k, rev, exp, prob, excl) :
        k \in ScenarioType,
        rev \in {None, Some(0), Some(12)},
        exp \in {None, Some(0), Some(115)},
        prob \in {None, Some(0), Some(7)},
        excl \in {None, Some(<<>>), Some(<<"mulago">>),
                  Some(<<"nosuch", "dovetail", "mulago", "mulago">>)}}

GrantKeyArgs == {"mulago", "nosuch"}

\* run_scenario adjusting self.base_inflows in place instead of a copy
RunScenarioStepInPlace(op, a) ==
    \E params \in {EffectiveParams(a.scenario_type, a.revenue_multiplier,
                                   a.expense_multiplier, a.grant_probability)} :
    \E model \in {ScenarioCashFlow(base_inflows, base_expenses, params, a.excluded_grants)} :
    \E result \in {ScenarioResult(a.scenario_type, params, model)} :
       /\ scenarios' = StoreResult(scenarios, a.scenario_type, result)
       /\ ret' = [op |-> op, args |-> a, value |-> result, model |-> model]
       /\ ncalls' = ncalls + 1
       /\ base_inflows' = [m \in MonthSet |-> model.inflows[m] \div Scale]
       /\ UNCHANGED <<base_expenses, ran_all>>
       /\ UNCHANGED cf_vars
       /\ UNCHANGED se_vars
       /\ UNCHANGED ut_vars

\* a run_scenario call with arguments a, reported as operation op; params,
\* model and result are the locals of run_scenario, each computed once
RunScenarioStep(op, a) ==
    \E params \in {EffectiveParams(a.scenario_type, a.revenue_multiplier,
                                   a.expense_multiplier, a.grant_probability)} :
    \E model \in {ScenarioCashFlow(base_inflows, base_expenses, params, a.excluded_grants)} :
    \E result \in {ScenarioResult(a.scenario_type, params, model)} :
       /\ scenarios' = StoreResult(scenarios, a.scenario_type, result)
       /\ ret' = [op |-> op, args |-> a, value |-> result, model |-> model]
       /\ ncalls' = ncalls + 1
       /\ UNCHANGED <<base_inflows, base_expenses, ran_all>>
       /\ UNCHANGED cf_vars
       /\ UNCHANGED se_vars
       /\ UNCHANGED ut_vars

RunScenario ==
    /\ ncalls < MaxCalls
    /\ \E a \in SeqRunArgs : RunScenarioStep("run_scenario", a)

RunScenarioAny ==
    /\ ncalls < MaxRuns
    /\ \E a \in AnyRunArgs : RunScenarioStep("run_scenario", a)

SimulateGrantLoss ==
    /\ ncalls < MaxCalls
    /\ \E grant_key \in GrantKeyArgs :
          RunScenarioStep("simulate_grant_loss",
                          RunArgs("custom", None, None, None, Some(<<grant_key>>)))

RunAllScenarios ==
    /\ ncalls < MaxCalls
    /\ scenarios' = run_all_scenarios(scenarios, base_inflows, base_expenses)
    /\ ret' = [op |-> "run_all_scenarios", value |-> scenarios']
    /\ ran_all' = TRUE
    /\ ncalls' = ncalls + 1
    /\ UNCHANGED <<base_inflows, base_expenses>>
    /\ UNCHANGED cf_vars
    /\ UNCHANGED se_vars
    /\ UNCHANGED ut_vars

CompareScenarios ==
    /\ ncalls < MaxCalls
    /\ scenarios' = IF scenarios = <<>>
                    THEN run_all_scenarios(scenarios, base_inflows, base_expenses)
                    ELSE scenarios
    /\ ran_all' = (ran_all \/ scenarios = <<>>)
    /\ ret' = [op |-> "compare_scenarios", value |-> compare_scenarios(scenarios')]
    /\ ncalls' = ncalls + 1
    /\ UNCHANGED <<base_inflows, base_expenses>>
    /\ UNCHANGED cf_vars
    /\ UNCHANGED se_vars
    /\ UNCHANGED ut_vars

GetScenarioCashFlows ==
    /\ ncalls < MaxCalls
    /\ scenarios' = IF scenarios = <<>>
                    THEN run_all_scenarios(scenarios, base_inflows, base_expenses)
                    ELSE scenarios
    /\ ran_all' = (ran_all \/ scenarios = <<>>)
    /\ ret' = [op |-> "get_scenario_cash_flows",
               value |-> get_scenario_cash_flows(scenarios', base_inflows, base_expenses)]
    /\ ncalls' = ncalls + 1
    /\ UNCHANGED <<base_inflows, base_expenses>>
    /\ UNCHANGED cf_vars
    /\ UNCHANGED se_vars
    /\ UNCHANGED ut_vars

InitScenario == CfIdle /\ SmIdle /\ SeIdle /\ UtIdle

NextScenario ==
    \/ RunScenario
    \/ SimulateGrantLoss
    \/ RunAllScenarios
    \/ CompareScenarios

SpecScenario == InitScenario /\ [][NextScenario]_vars

\* run_scenario calls followed by get_scenario_cash_flows
NextScenarioCashFlows ==
    \/ RunScenario
    \/ GetScenarioCashFlows

SpecScenarioCashFlows == InitScenario /\ [][NextScenarioCashFlows]_vars

NextRunScenario == RunScenarioAny

SpecRunScenario == InitScenario /\ [][NextRunScenario]_vars

---------------------------------------------------------------------------
(* Properties of the scenario engine *)

\* the documented defaults of each kind, as (revenue, expense, grant probability)
DocumentedDefaults(kind) ==
    CASE kind = "base" -> <<10, 100, 10>>
      [] kind = "optimistic" -> <<12, 90, 10>>
      [] kind = "pessimistic" -> <<7, 115, 7>>
      [] kind = "custom" -> <<10, 100, 10>>

\* the effective multipliers of a call: the supplied value, else the default
EffRev(a) ==
    IF a.revenue_multiplier.given THEN a.revenue_multiplier.val
    ELSE DocumentedDefaults(a.scenario_type)[1]
EffExp(a) ==
    IF a.expense_multiplier.given THEN a.expense_multiplier.val
    ELSE DocumentedDefaults(a.scenario_type)[2]
EffProb(a) ==
    IF a.grant_probability.given THEN a.grant_probability.val
    ELSE DocumentedDefaults(a.scenario_type)[3]

IsRun == ret.op \in {"run_scenario", "simulate_grant_loss"}

NoOverrides(a) ==
    /\ ~a.revenue_multiplier.given
    /\ ~a.expense_multiplier.given
    /\ ~a.grant_probability.given

\* sums of the shipped monthly figures
BaseInflowTotal == SumSeq([i \in 1..12 |-> MONTHLY_INFLOWS[MONTHS[i]]])
BaseExpenseTotal == SumSeq([i \in 1..12 |-> MONTHLY_EXPENSES[MONTHS[i]]])

\* year-end surplus in closed form for multipliers r, e, g and no exclusion
ClosedFormSurplus(r, e, g) ==
    ToFixed(OPENING_BALANCE) + r * g * BaseInflowTotal - e * BaseExpenseTotal

\* C5: the multipliers run_scenario applies and records are the supplied
\* override when one is given (0 included), else the kind's default: base
\* 1.0/1.0/1.0, optimistic 1.2/0.9/1.0, pessimistic 0.7/1.15/0.7, custom 1.0/1.0/1.0.
C5_Multipliers ==
    IsRun =>
        /\ ret.value.assumptions =
              [revenue_multiplier |-> EffRev(ret.args),
               expense_multiplier |-> EffExp(ret.args),
               grant_probability |-> EffProb(ret.args)]
        /\ ret.value.total_expenses = EffExp(ret.args) * BaseExpenseTotal
        /\ \A m \in MonthSet :
              ret.model.expenses[m] = MONTHLY_EXPENSES[m] * EffExp(ret.args)

\* a pessimistic run with revenue_multiplier = 0 supplied and the rest omitted
C5_Witness ==
    /\ ret.op = "run_scenario"
    /\ ret.args.scenario_type = "pessimistic"
    /\ ret.args.revenue_multiplier = Some(0)
    /\ ~ret.args.expense_multiplier.given
    /\ ~ret.args.grant_probability.given
    /\ ret.value.assumptions =
          [revenue_multiplier |-> 0, expense_multiplier |-> 115, grant_probability |-> 7]

\* C6: without excluded grants every month's inflow is base*r*g and every
\* month's expense base*e, so total_inflows = r*g*sum(inflows), total_expenses
\* = e*sum(expenses), year_end_surplus = opening + r*g*sum(inflows) -
\* e*sum(expenses); the base scenario equals the unscaled cash-flow run and
\* the pessimistic scenario uses the factors 0.49 and 1.15.
C6_ScenarioLinearity ==
    (IsRun /\ (~ret.args.excluded_grants.given \/ ret.args.excluded_grants.val = <<>>)) =>
        LET a == ret.args
            r == EffRev(a)
            e == EffExp(a)
            g == EffProb(a)
            unscaled == NewCashFlowModel(OPENING_BALANCE, None, None)
        IN /\ \A m \in MonthSet :
                 /\ ret.model.inflows[m] = MONTHLY_INFLOWS[m] * r * g
                 /\ ret.model.expenses[m] = MONTHLY_EXPENSES[m] * e
           /\ ret.value.total_inflows = r * g * BaseInflowTotal
           /\ ret.value.total_expenses = e * BaseExpenseTotal
           /\ ret.value.year_end_surplus = ClosedFormSurplus(r, e, g)
           /\ (a.scenario_type = "base" /\ NoOverrides(a)) =>
                 /\ ret.value.total_inflows = ToFixed(get_total_inflows(unscaled))
                 /\ ret.value.total_expenses = ToFixed(get_total_outflows(unscaled))
                 /\ ret.value.year_end_surplus = ToFixed(get_year_end_position(unscaled))
                 /\ ret.value.minimum_cash = ToFixed(get_minimum_cash_month(unscaled).closing)
                 /\ ret.value.minimum_cash_month = get_minimum_cash_month(unscaled).month
           /\ (a.scenario_type = "pessimistic" /\ NoOverrides(a)) =>
                 /\ ret.value.total_inflows = 49 * BaseInflowTotal
                 /\ ret.value.total_expenses = 115 * BaseExpenseTotal

\* a pessimistic run with nothing overridden and nothing excluded
C6_Witness ==
    /\ ret.op = "run_scenario"
    /\ ret.args = DefaultArgs("pessimistic")
    /\ ret.value.total_inflows = 49 * BaseInflowTotal
    /\ ret.value.year_end_surplus < ToFixed(OPENING_BALANCE)

RECURSIVE ExcludedInMonth(_, _)
\* the nominal amount the dataset grants listed in `keys` disburse in month m
ExcludedInMonth(keys, m) ==
    IF keys = <<>> THEN 0
    ELSE (IF Head(keys) \in DOMAIN GRANT_INCOME
          THEN DictGet(GRANT_INCOME[Head(keys)].timing, m, 0)
          ELSE 0)
         + ExcludedInMonth(Tail(keys), m)

\* C7: with an excluded_grants list, adjusted_inflow[m] = base_inflow[m]*r*g
\* minus the nominal, unscaled disbursements in m of every listed grant of
\* the dataset; excluding one grant lowers year_end_surplus by that grant's
\* full amount whatever the multipliers; expenses are unaffected.
C7_ExcludedGrants ==
    (IsRun /\ ret.args.excluded_grants.given /\ ret.args.excluded_grants.val # <<>>) =>
        LET a == ret.args
            r == EffRev(a)
            e == EffExp(a)
            g == EffProb(a)
            keys == a.excluded_grants.val
        IN /\ \A m \in MonthSet :
                 /\ ret.model.inflows[m] =
                       MONTHLY_INFLOWS[m] * r * g - ToFixed(ExcludedInMonth(keys, m))
                 /\ ret.model.expenses[m] = MONTHLY_EXPENSES[m] * e
           /\ ret.value.total_expenses = e * BaseExpenseTotal
           /\ (Len(keys) = 1 /\ keys[1] \in DOMAIN GRANT_INCOME) =>
                 ret.value.year_end_surplus =
                     ClosedFormSurplus(r, e, g) - ToFixed(GRANT_INCOME[keys[1]].amount)

\* an unknown key, one grant once and one grant twice excluded under a
\* revenue multiplier of 1.2
C7_Witness ==
    /\ ret.op = "run_scenario"
    /\ ret.args.excluded_grants = Some(<<"nosuch", "dovetail", "mulago", "mulago">>)
    /\ ret.args.revenue_multiplier = Some(12)
    /\ ~ret.args.grant_probability.given
    /\ ret.args.scenario_type = "custom"
    /\ ret.value.total_inflows = 120 * BaseInflowTotal - ToFixed(400000 + 950000 + 950000)

CachedResult(kind) == DictLookup(scenarios, kind).val

\* C8: once run_all_scenarios has run, compare_scenarios returns under
\* 'Base Case (Budget)' the figures of the cached base result, under
\* 'Optimistic (Best Case)' those of the cached optimistic result and under
\* 'Pessimistic (Worst Case)' those of the cached pessimistic result.
C8_CompareKeyedByName ==
    (ret.op = "compare_scenarios" /\ ran_all) =>
        /\ {"Base Case (Budget)", "Optimistic (Best Case)", "Pessimistic (Worst Case)"}
              \subseteq DOMAIN ret.value
        /\ ret.value["Base Case (Budget)"] = Figures(CachedResult("base"))
        /\ ret.value["Optimistic (Best Case)"] = Figures(CachedResult("optimistic"))
        /\ ret.value["Pessimistic (Worst Case)"] = Figures(CachedResult("pessimistic"))

\* C9: in any state run_all_scenarios returns a map of exactly three
\* results, keyed base, optimistic and pessimistic, each computed with its
\* kind's default multipliers.
C9_RunAllReturnsThree ==
    ret.op = "run_all_scenarios" =>
        /\ Len(ret.value) = 3
        /\ DictKeys(ret.value) = {"base", "optimistic", "pessimistic"}
        /\ \A k \in {"base", "optimistic", "pessimistic"} :
              DictLookup(ret.value, k).val.assumptions =
                  [revenue_multiplier |-> DocumentedDefaults(k)[1],
                   expense_multiplier |-> DocumentedDefaults(k)[2],
                   grant_probability |-> DocumentedDefaults(k)[3]]

IsCustomRun(r) ==
    \/ r.op = "simulate_grant_loss"
    \/ (r.op = "run_scenario" /\ r.args.scenario_type = "custom")

\* C10: a run_scenario call of kind CUSTOM, and so every simulate_grant_loss
\* call, leaves the cached base, optimistic and pessimistic entries as they
\* were and adds or replaces only the entry keyed CUSTOM.
C10_CustomKeepsTriple ==
    [][IsCustomRun(ret') =>
          /\ \A k \in {"base", "optimistic", "pessimistic"} :
                DictLookup(scenarios', k) = DictLookup(scenarios, k)
          /\ DictKeys(scenarios') = DictKeys(scenarios) \cup {"custom"}
          /\ DictLookup(scenarios', "custom") = Some(ret'.value)]_vars

\* a grant-loss simulation made after run_all_scenarios, the triple still cached
C10_Witness ==
    /\ ret.op = "simulate_grant_loss"
    /\ ran_all
    /\ DictKeys(scenarios) = ScenarioType
    /\ CachedResult("base").year_end_surplus = ToFixed(get_year_end_position(NewCashFlowModel(OPENING_BALANCE, None, None)))
    /\ CachedResult("custom").year_end_surplus = CachedResult("base").year_end_surplus - ToFixed(950000)

\* multipliers a second run is compared against: revenue in tenths, expense
\* in hundredths
RevGrid == {5, 15}
ExpGrid == {50, 150}

\* the year-end surplus of the call `a` with one parameter replaced
SurplusWithRevenue(a, r) ==
    run_scenario(base_inflows, base_expenses,
                 [a EXCEPT !.revenue_multiplier = Some(r)]).year_end_surplus
SurplusWithExpense(a, e) ==
    run_scenario(base_inflows, base_expenses,
                 [a EXCEPT !.expense_multiplier = Some(e)]).year_end_surplus

\* a larger expense multiplier gives a strictly smaller year-end surplus
ExpenseMonotone(a, surplus) ==
    \A e \in ExpGrid :
        /\ EffExp(a) < e => surplus > SurplusWithExpense(a, e)
        /\ e < EffExp(a) => SurplusWithExpense(a, e) > surplus

\* C12: kind, expense multiplier, excluded grants and a grant probability
\* in 0..1 held fixed, a larger revenue multiplier gives a strictly larger
\* year-end surplus; revenue multiplier, grant probability and excluded
\* grants held fixed, a larger expense multiplier gives a strictly smaller
\* year-end surplus.
C12_Monotonicity ==
    (ret.op = "run_scenario" /\ EffProb(ret.args) \in 0..ProbUnit) =>
        /\ \A r \in RevGrid :
              /\ EffRev(ret.args) < r =>
                    ret.value.year_end_surplus < SurplusWithRevenue(ret.args, r)
              /\ r < EffRev(ret.args) =>
                    SurplusWithRevenue(ret.args, r) < ret.value.year_end_surplus
        /\ ExpenseMonotone(ret.args, ret.value.year_end_surplus)

\* C12 amended: the revenue half holds for a grant probability above 0; at
\* grant probability 0 every inflow is scaled to 0 and the year-end surplus
\* is the same for every revenue multiplier.  The expense half holds as is.
C12_MonotonicityPositiveProbability ==
    (ret.op = "run_scenario" /\ EffProb(ret.args) \in 0..ProbUnit) =>
        /\ EffProb(ret.args) > 0 =>
              \A r \in RevGrid :
                  /\ EffRev(ret.args) < r =>
                        ret.value.year_end_surplus < SurplusWithRevenue(ret.args, r)
                  /\ r < EffRev(ret.args) =>
                        SurplusWithRevenue(ret.args, r) < ret.value.year_end_surplus
        /\ EffProb(ret.args) = 0 =>
              \A r \in RevGrid :
                  SurplusWithRevenue(ret.args, r) = ret.value.year_end_surplus
        /\ ExpenseMonotone(ret.args, ret.value.year_end_surplus)

\* a pessimistic run with revenue 1.2 and expense 1.15 supplied, one grant
\* excluded, under the default grant probability 0.7
C12_Witness ==
    /\ ret.op = "run_scenario"
    /\ ret.args = RunArgs("pessimistic", Some(12), Some(115), None, Some(<<"mulago">>))
    /\ SurplusWithRevenue(ret.args, 15) > ret.value.year_end_surplus
    /\ SurplusWithExpense(ret.args, 150) < ret.value.year_end_surplus

---------------------------------------------------------------------------
(* models/sensitivity_model.py: SensitivityModel                           *)
(*                                                                         *)
(* change_pct is a float.  A finite change_pct is carried exactly, as the  *)
(* fraction of the whole it stands for: Pct(num, den) is the change_pct    *)
(* with change_pct / 100 = num / den.  Whole percents are Pct(p, 100); the *)
(* values find_break_even_point visits when it halves (-50, 50) are        *)
(* Pct(t, 2048).  An amount multiplied by such a fraction is a number of   *)
(* whole dollars plus a number of 1/den dollars (Money): counted in 1/den  *)
(* dollars alone the yearly totals would not fit 32-bit integers.          *)
(* A change_pct so large that its products exceed the largest float is     *)
(* Huge(k), the float k * 2^1020; float overflow yields PlusInfinity,      *)
(* MinusInfinity and NaN.                                                  *)

\* change_pct / 100 = 1 / 100 for one whole percent
PercentDen == 100
\* change_pct / 100 = 1 / 2048 for the finest step of the default search:
\* 100 percentage points halved 11 times
SearchDen == 2048

Pct(num, den) == [kind |-> "finite", num |-> num, den |-> den]
Huge(k) == [kind |-> "huge", k |-> k]
PlusInfinity == [kind |-> "inf"]
MinusInfinity == [kind |-> "-inf"]
NaN == [kind |-> "nan"]

\* whole + frac / den dollars, normalised to 0 <= frac < den
Money(whole, frac, den) ==
    [kind |-> "finite", whole |-> whole + (frac \div den), frac |-> frac % den, den |-> den]

Dollars(n, den) == Money(n, 0, den)

MoneyAdd(a, b) == Money(a.whole + b.whole, a.frac + b.frac, a.den)

MoneySub(a, b) == Money(a.whole - b.whole, a.frac - b.frac, a.den)

\* amount * (num / den) for a whole-dollar amount
MoneyTimes(amount, num, den) == Money((amount \div den) * num, (amount % den) * num, den)

\* x > 0 for a Money or an overflowed float
IsPositive(x) ==
    CASE x.kind = "finite" -> x.whole > 0 \/ (x.whole = 0 /\ x.frac > 0)
      [] x.kind = "inf" -> TRUE
      [] OTHER -> FALSE

MoneyMap(d, den) == [m \in DOMAIN d |-> Dollars(d[m], den)]

Wholes(d) == [m \in DOMAIN d |-> d[m].whole]
Fracs(d) == [m \in DOMAIN d |-> d[m].frac]

\* sum(d.values()) of a map of Money
SumMoney(d, den) == Money(SumValues(Wholes(d)), SumValues(Fracs(d)), den)

\* CashFlowModel(inflows=..., expenses=...) on maps of Money.  Balances are
\* sums of the entries, so the engine is run on the whole-dollar parts (with
\* the default opening balance) and on the 1/den parts (opening 0), and a
\* figure of the model is the Money made of the two runs' figures.
MoneyCashFlow(inflows, expenses, den) ==
    [whole |-> NewCashFlowModel(OPENING_BALANCE, Some(Wholes(inflows)), Some(Wholes(expenses))),
     frac |-> NewCashFlowModel(0, Some(Fracs(inflows)), Some(Fracs(expenses))),
     den |-> den]

MoneyYearEnd(model) ==
    Money(get_year_end_position(model.whole), get_year_end_position(model.frac), model.den)

MoneyAverageBurn(model) ==
    Quot(Money(get_total_outflows(model.whole), get_total_outflows(model.frac), model.den), 12)

\* a - b, kept unevaluated
Diff(a, b) == [minuend |-> a, subtrahend |-> b]

\* a call either returns a value or raises
Return(value) == [raised |-> FALSE, value |-> value]
Raise(error) == [raised |-> TRUE, error |-> error]

SensitivityResult(variable, base_value, test_value, change_pct, impact_on_surplus, new_surplus, impact_on_runway, new_runway) ==
    [variable |-> variable, base_value |-> base_value, test_value |-> test_value,
     change_pct |-> change_pct, impact_on_surplus |-> impact_on_surplus,
     new_surplus |-> new_surplus, impact_on_runway |-> impact_on_runway,
     new_runway |-> new_runway]

\* GRANT_INCOME.items() in dataset order
GRANT_KEYS ==
    <<"prevail_general_ops", "prevail_implementation", "prevail_data_collection",
      "dovetail", "mulago", "niete_ict">>

\* {m: v * multiplier for m, v in base.items()}, multiplier = num / den
ScaleMap(base, num, den) == [m \in DOMAIN base |-> MoneyTimes(base[m], num, den)]

\* for month, amount in timing.items():
\*     adjusted[month] = adjusted.get(month, 0) + amount * (multiplier - 1)
\* with multiplier - 1 = num / den
AdjustTiming(adjusted, timing, num, den) ==
    [m \in DOMAIN adjusted \cup DOMAIN timing |->
        LET current == IF m \in DOMAIN adjusted THEN adjusted[m] ELSE Dollars(0, den)
        IN IF m \in DOMAIN timing
           THEN MoneyAdd(current, MoneyTimes(timing[m], num, den))
           ELSE current]

RECURSIVE AdjustEachGrant(_, _, _, _)
\* for grant_name, grant_data in GRANT_INCOME.items(): ...
AdjustEachGrant(adjusted, keys, num, den) ==
    IF keys = <<>> THEN adjusted
    ELSE AdjustEachGrant(AdjustTiming(adjusted, GRANT_INCOME[Head(keys)].timing, num, den),
                         Tail(keys), num, den)

RecognizedVariables == {"revenue", "expenses", "grant_total"}

\* analyze_variable for a recognized variable and a finite change_pct
AnalyzeFinite(self, variable, change_pct) ==
    LET den == change_pct.den
        \* multiplier = 1 + change_pct / 100 = (den + num) / den
        multiplier == den + change_pct.num
        adjusted_inflows ==
            CASE variable = "revenue" -> ScaleMap(self.base_inflows, multiplier, den)
              [] variable = "expenses" -> MoneyMap(self.base_inflows, den)
              [] variable = "grant_total" ->
                    AdjustEachGrant(MoneyMap(self.base_inflows, den), GRANT_KEYS,
                                    change_pct.num, den)
        adjusted_expenses ==
            IF variable = "expenses"
            THEN ScaleMap(self.base_expenses, multiplier, den)
            ELSE MoneyMap(self.base_expenses, den)
        model == MoneyCashFlow(adjusted_inflows, adjusted_expenses, den)
        base_value ==
            CASE variable = "revenue" -> SumValues(self.base_inflows)
              [] variable = "expenses" -> SumValues(self.base_expenses)
              [] variable = "grant_total" -> TOTAL_GRANT_INCOME
        test_value ==
            CASE variable = "revenue" -> SumMoney(adjusted_inflows, den)
              [] variable = "expenses" -> SumMoney(adjusted_expenses, den)
              [] variable = "grant_total" -> MoneyTimes(TOTAL_GRANT_INCOME, multiplier, den)
        new_surplus == MoneyYearEnd(model)
        avg_burn == MoneyAverageBurn(model)
        new_runway == IF IsPositive(avg_burn.num) THEN Quot(new_surplus, avg_burn) ELSE Infinity
    IN SensitivityResult(variable, base_value, test_value, change_pct,
                         MoneySub(new_surplus, Dollars(self.base_surplus, den)), new_surplus,
                         Diff(new_runway, self.base_runway), new_runway)

\* analyze_variable for a recognized variable and a change_pct that is Huge
\* or PlusInfinity: the least amount of the dataset times the multiplier
\* (at least 2^1020 / 100) already exceeds the largest float, so every
\* scaled amount is inf and so is every balance it enters (-inf where it is
\* an expense); -inf / inf is nan
AnalyzeOverflow(self, variable, change_pct) ==
    LET base_value ==
            CASE variable = "revenue" -> SumValues(self.base_inflows)
              [] variable = "expenses" -> SumValues(self.base_expenses)
              [] variable = "grant_total" -> TOTAL_GRANT_INCOME
        new_surplus == IF variable = "expenses" THEN MinusInfinity ELSE PlusInfinity
        new_runway == IF variable = "expenses" THEN NaN ELSE PlusInfinity
    IN SensitivityResult(variable, base_value, PlusInfinity, change_pct,
                         new_surplus, new_surplus, new_runway, new_runway)

analyze_variable(self, variable, change_pct) ==
    IF variable \notin RecognizedVariables THEN Raise("ValueError")
    ELSE IF change_pct.kind = "finite" THEN Return(AnalyzeFinite(self, variable, change_pct))
    ELSE Return(AnalyzeOverflow(self, variable, change_pct))

\* adjusted_inflows[month] = adjusted_inflows.get(month, 0) - amount
RemoveTiming(adjusted, timing) ==
    [m \in DOMAIN adjusted \cup DOMAIN timing |->
        DictGet(adjusted, m, 0) - DictGet(timing, m, 0)]

\* what self.base_inflows holds once the loop body has written into
\* adjusted_inflows
BaseAfterAliasedWrites(base, adjusted) == adjusted

\* adjusted_inflows = self.base_inflows.copy(): the writes go to the copy
BaseAfterWrites(base, adjusted) == base

\* the record analyze_grant_dependency stores for one grant; the percentage
\* grant_amount / TOTAL_GRANT_INCOME * 100 is kept as one quotient
GrantDependencyRecord(self, grant_data, adjusted_inflows) ==
    LET grant_amount == grant_data.amount
        model == NewCashFlowModel(OPENING_BALANCE, Some(adjusted_inflows),
                                  Some(self.base_expenses))
        new_surplus == get_year_end_position(model)
        avg_burn == get_average_monthly_burn(model)
        new_runway == IF Positive(avg_burn) THEN Quot(new_surplus, avg_burn) ELSE Infinity
    IN [grant_amount |-> grant_amount,
        percentage_of_total |-> Quot(grant_amount * 100, TOTAL_GRANT_INCOME),
        impact_on_surplus |-> new_surplus - self.base_surplus,
        new_surplus |-> new_surplus,
        new_runway_months |-> new_runway,
        critical |-> new_surplus < 0]

RECURSIVE GrantDependencyEach(_, _, _)
\* for grant_name, grant_data in GRANT_INCOME.items(): ...
\* gives the instance as the loop leaves it and the results
GrantDependencyEach(self, results, keys) ==
    IF keys = <<>> THEN [self |-> self, results |-> results]
    ELSE LET grant_data == GRANT_INCOME[Head(keys)]
             adjusted_inflows == RemoveTiming(self.base_inflows, grant_data.timing)
         IN GrantDependencyEach(
                [self EXCEPT !.base_inflows =
                    BaseAfterWrites(self.base_inflows, adjusted_inflows)],
                DictStore(results, Head(keys),
                          GrantDependencyRecord(self, grant_data, adjusted_inflows)),
                Tail(keys))

analyze_grant_dependency(self) == GrantDependencyEach(self, <<>>, GRANT_KEYS)

\* xs[idx] on a Python list: 0-based, a negative index counts from the end,
\* an index outside -len..len-1 raises IndexError (None here)
PyIndex(xs, idx) ==
    IF 0 <= idx /\ idx < Len(xs) THEN Some(xs[idx + 1])
    ELSE IF idx < 0 /\ idx >= -Len(xs) THEN Some(xs[Len(xs) + idx + 1])
    ELSE None

\* the loop of analyze_revenue_delay from the 0-based month index i on
RECURSIVE DelayEach(_, _, _, _)
DelayEach(self, adjusted_inflows, i, months_delayed) ==
    IF i >= Len(MONTHS) THEN Return(adjusted_inflows)
    ELSE LET original_amount == DictGet(self.base_inflows, MONTHS[i + 1], 0)
             new_month_idx == i + months_delayed
         IN IF new_month_idx < Len(MONTHS)
            THEN LET new_month == PyIndex(MONTHS, new_month_idx)
                 IN IF ~new_month.given THEN Raise("IndexError")
                    ELSE DelayEach(self,
                                   [adjusted_inflows EXCEPT
                                       ![new_month.val] = @ + original_amount],
                                   i + 1, months_delayed)
            ELSE DelayEach(self, adjusted_inflows, i + 1, months_delayed)

\* adjusted_inflows of analyze_revenue_delay after its loop
DelayedInflows(self, months_delayed) ==
    DelayEach(self, [m \in MonthSet |-> 0], 0, months_delayed)

\* the months, in calendar order, whose closing is negative
CashNegativeMonths(model) ==
    LET negative == SelectSeq(model.positions, LAMBDA p : p.closing < 0)
    IN [i \in 1..Len(negative) |-> negative[i].month]

analyze_revenue_delay(self, months_delayed) ==
    LET shifted == DelayedInflows(self, months_delayed)
    IN IF shifted.raised THEN shifted
       ELSE LET adjusted_inflows == shifted.value
                model == NewCashFlowModel(OPENING_BALANCE, Some(adjusted_inflows),
                                          Some(self.base_expenses))
                min_position == get_minimum_cash_month(model)
                lost_revenue == SumValues(self.base_inflows) - SumValues(adjusted_inflows)
            IN Return([months_delayed |-> months_delayed,
                       lost_revenue |-> lost_revenue,
                       new_total_inflows |-> SumValues(adjusted_inflows),
                       new_year_end_surplus |-> get_year_end_position(model),
                       impact_on_surplus |-> get_year_end_position(model) - self.base_surplus,
                       minimum_cash |-> min_position.closing,
                       minimum_cash_month |-> min_position.month,
                       cash_negative_months |-> CashNegativeMonths(model)])

\* (low + high) / 2.  Two finite bounds share their den; the sum of two Huge
\* bounds k * 2^1020 with k summing to 16 or more exceeds the largest float
\* (below 2^1024) and is inf, as is every sum with inf
Mid(low, high) ==
    CASE low.kind = "finite" /\ high.kind = "finite" ->
            Pct((low.num + high.num) \div 2, low.den)
      [] low.kind = "huge" /\ high.kind = "huge" /\ low.k + high.k < 16 ->
            Huge((low.k + high.k) \div 2)
      [] OTHER -> PlusInfinity

WidthExceedsTenthOfWhole(low, high) ==
    CASE low.kind = "finite" /\ high.kind = "finite" ->
            (high.num - low.num) * 10 > low.den
      [] low.kind = "huge" /\ high.kind = "huge" -> high.k > low.k
      [] low.kind \in {"finite", "huge"} /\ high.kind = "inf" -> TRUE
      [] OTHER -> FALSE

\* high - low > tolerance, tolerance = 0.1 percentage points:
\* (high.num - low.num) / den * 100 > 1 / 10
WidthExceedsTolerance(low, high) ==
    CASE low.kind = "finite" /\ high.kind = "finite" ->
            (high.num - low.num) * 1000 > low.den
      [] low.kind = "huge" /\ high.kind = "huge" -> high.k > low.k
      [] low.kind \in {"finite", "huge"} /\ high.kind = "inf" -> TRUE
      [] OTHER -> FALSE

NarrowIntervalOneDirection(variable, low, high, mid, new_surplus) ==
    IF IsPositive(new_surplus)
    THEN [low |-> mid, high |-> high]
    ELSE [low |-> low, high |-> mid]

\* the branch of the loop body that moves one bound to mid
NarrowInterval(variable, low, high, mid, new_surplus) ==
    IF IsPositive(new_surplus)
    THEN IF variable = "revenue" THEN [low |-> low, high |-> mid]
         ELSE [low |-> mid, high |-> high]
    ELSE IF variable = "revenue" THEN [low |-> mid, high |-> high]
         ELSE [low |-> low, high |-> mid]

---------------------------------------------------------------------------
(* The sensitivity engine as a state machine: a caller analyses variables, *)
(* analyses the grant dependency and searches break-even points on one     *)
(* SensitivityModel.  find_break_even_point advances one loop iteration    *)
(* per step.                                                               *)

\* variable names a caller passes: the three recognized ones and another
VariableArgs == RecognizedVariables \cup {"foo"}

\* -100, -30, 0 and 10 percent
ChangeArgs == {Pct(-100, PercentDen), Pct(-30, PercentDen), Pct(0, PercentDen), Pct(10, PercentDen)}

\* the default search_range (-50, 50)
DefaultSearchRange == <<Pct(-1024, SearchDen), Pct(1024, SearchDen)>>

\* (-50, 50), (0, 100), (-100, 0), (-25, 25), (0, 0), (50, -50) and a range
\* of floats above half the largest float, (9 * 2^1020, 15 * 2^1020)
SearchRangeArgs ==
    {DefaultSearchRange,
     <<Pct(0, SearchDen), Pct(2048, SearchDen)>>,
     <<Pct(-2048, SearchDen), Pct(0, SearchDen)>>,
     <<Pct(-512, SearchDen), Pct(512, SearchDen)>>,
     <<Pct(0, SearchDen), Pct(0, SearchDen)>>,
     <<Pct(1024, SearchDen), Pct(-1024, SearchDen)>>,
     <<Huge(9), Huge(15)>>}

\* the value the last call returned, when that call was a break-even search
ReturnedBreakEven ==
    IF ret.op = "find_break_even_point" /\ ~ret.outcome.raised /\ ret.outcome.value.kind = "finite"
    THEN {ret.outcome.value}
    ELSE {}

\* analyze_variable(variable, change_pct)
AnalyzeVariable ==
    /\ search.pc # "loop"
    /\ \E variable \in VariableArgs, change_pct \in ChangeArgs \cup ReturnedBreakEven :
        ret' = [op |-> "analyze_variable",
                args |-> [variable |-> variable, change_pct |-> change_pct],
                outcome |-> analyze_variable(sens, variable, change_pct)]
    /\ UNCHANGED <<sens, search>>
    /\ UNCHANGED <<base_inflows, base_expenses, scenarios, ran_all, ncalls>>
    /\ UNCHANGED cf_vars
    /\ UNCHANGED ut_vars

\* analyze_grant_dependency()
AnalyzeGrantDependency ==
    /\ search.pc # "loop"
    /\ \E out \in {analyze_grant_dependency(sens)} :
        /\ sens' = out.self
        /\ ret' = [op |-> "analyze_grant_dependency", args |-> <<>>,
                   outcome |-> Return(out.results)]
    /\ UNCHANGED search
    /\ UNCHANGED <<base_inflows, base_expenses, scenarios, ran_all, ncalls>>
    /\ UNCHANGED cf_vars
    /\ UNCHANGED ut_vars

\* delays a caller passes: up to MaxDelay months later or earlier
DelayArgs == (-MaxDelay)..MaxDelay

\* analyze_revenue_delay(months_delayed); adjusted_inflows is the local of
\* the call after its loop and expenses the map handed to CashFlowModel
AnalyzeRevenueDelay ==
    /\ search.pc # "loop"
    /\ \E months_delayed \in DelayArgs :
        ret' = [op |-> "analyze_revenue_delay",
                args |-> [months_delayed |-> months_delayed],
                adjusted_inflows |-> DelayedInflows(sens, months_delayed),
                expenses |-> sens.base_expenses,
                outcome |-> analyze_revenue_delay(sens, months_delayed)]
    /\ UNCHANGED <<sens, search>>
    /\ UNCHANGED <<base_inflows, base_expenses, scenarios, ran_all, ncalls>>
    /\ UNCHANGED cf_vars
    /\ UNCHANGED ut_vars

\* find_break_even_point(variable, search_range): entry, up to the loop test
BreakEvenStart ==
    /\ search.pc # "loop"
    /\ \E variable \in VariableArgs, search_range \in SearchRangeArgs :
        search' = [pc |-> "loop", variable |-> variable, search_range |-> search_range,
                   low |-> search_range[1], high |-> search_range[2], iterations |-> 0]
    /\ ret' = NoRet
    /\ UNCHANGED sens
    /\ UNCHANGED <<base_inflows, base_expenses, scenarios, ran_all, ncalls>>
    /\ UNCHANGED cf_vars
    /\ UNCHANGED ut_vars

\* one iteration of `while high - low > tolerance`
BreakEvenIterate ==
    /\ search.pc = "loop"
    /\ WidthExceedsTolerance(search.low, search.high)
    /\ search.iterations < MaxIter
    /\ \E mid \in {Mid(search.low, search.high)} :
       \E result \in {analyze_variable(sens, search.variable, mid)} :
          IF result.raised
          THEN /\ search' = [search EXCEPT !.pc = "raised"]
               /\ ret' = [op |-> "find_break_even_point",
                          args |-> [variable |-> search.variable,
                                    search_range |-> search.search_range],
                          outcome |-> result]
          ELSE /\ \E narrowed \in {NarrowInterval(search.variable, search.low, search.high,
                                                 mid, result.value.new_surplus)} :
                    search' = [search EXCEPT !.low = narrowed.low, !.high = narrowed.high,
                                             !.iterations = @ + 1]
               /\ UNCHANGED ret
    /\ UNCHANGED sens
    /\ UNCHANGED <<base_inflows, base_expenses, scenarios, ran_all, ncalls>>
    /\ UNCHANGED cf_vars
    /\ UNCHANGED ut_vars

\* the loop test fails: return (low + high) / 2
BreakEvenReturn ==
    /\ search.pc = "loop"
    /\ ~WidthExceedsTolerance(search.low, search.high)
    /\ search' = [search EXCEPT !.pc = "done"]
    /\ ret' = [op |-> "find_break_even_point",
               args |-> [variable |-> search.variable, search_range |-> search.search_range],
               outcome |-> Return(Mid(search.low, search.high))]
    /\ UNCHANGED sens
    /\ UNCHANGED <<base_inflows, base_expenses, scenarios, ran_all, ncalls>>
    /\ UNCHANGED cf_vars
    /\ UNCHANGED ut_vars

InitSensitivity == CfIdle /\ SmIdle /\ SeIdle /\ UtIdle

NextSensitivity ==
    \/ AnalyzeVariable
    \/ AnalyzeGrantDependency
    \/ AnalyzeRevenueDelay
    \/ BreakEvenStart
    \/ BreakEvenIterate
    \/ BreakEvenReturn

SpecSensitivity == InitSensitivity /\ [][NextSensitivity]_vars

---------------------------------------------------------------------------
(* Both engines together: a caller interleaves run_scenario calls on one   *)
(* ScenarioModel with the operations of one SensitivityModel.  The caller  *)
(* is single-threaded, so no call starts inside a break-even search.       *)

\* arguments of the run_scenario calls interleaved with sensitivity operations
EngineRunArgs ==
    {RunArgs("pessimistic", None, None, None, None),
     RunArgs("base", None, None, None, Some(<<"mulago">>))}

RunScenarioBetween ==
    /\ ncalls < MaxEngineCalls
    /\ search.pc # "loop"
    /\ \E a \in EngineRunArgs : RunScenarioStep("run_scenario", a)

InitEngine == CfIdle /\ SmIdle /\ SeIdle /\ UtIdle

NextEngine ==
    \/ RunScenarioBetween
    \/ AnalyzeVariable
    \/ AnalyzeGrantDependency
    \/ BreakEvenStart
    \/ BreakEvenIterate
    \/ BreakEvenReturn

SpecEngine == InitEngine /\ [][NextEngine]_vars

---------------------------------------------------------------------------
(* Properties of the sensitivity engine (checked under SpecSensitivity) *)

\* the cash-flow run of the unmodified snapshot
BaseRun == NewCashFlowModel(OPENING_BALANCE, None, None)

\* the runway of a run: year-end position over average monthly burn
RunwayOf(model) == Quot(get_year_end_position(model), get_average_monthly_burn(model))

IsAnalysis == ret.op = "analyze_variable" /\ ret.args.variable \in RecognizedVariables

\* a runway kept as a quotient of Money equals a runway kept as a quotient
\* of whole dollars
SameRunway(money_runway, runway) ==
    /\ DOMAIN money_runway = {"num", "den"}
    /\ money_runway.num = Dollars(runway.num, money_runway.num.den)
    /\ money_runway.den.num = Dollars(runway.den.num, money_runway.num.den)
    /\ money_runway.den.den = runway.den.den

\* C13: for a recognized variable and any change_pct, impact_on_surplus is
\* new_surplus minus the year-end position of the base run of the unmodified
\* snapshot and impact_on_runway is new_runway minus that run's runway; with
\* change_pct = 0 both impacts are 0.
C13_ImpactAgainstBaseRun ==
    IsAnalysis =>
        LET result == ret.outcome.value
            den == ret.args.change_pct.den
        IN /\ result.impact_on_surplus =
                  MoneySub(result.new_surplus, Dollars(get_year_end_position(BaseRun), den))
           /\ result.impact_on_runway = Diff(result.new_runway, RunwayOf(BaseRun))
           /\ ret.args.change_pct.num = 0 =>
                  /\ result.impact_on_surplus = Dollars(0, den)
                  /\ SameRunway(result.new_runway, RunwayOf(BaseRun))

\* a <= b for two Money of one den
MoneyLeq(a, b) == a.whole < b.whole \/ (a.whole = b.whole /\ a.frac <= b.frac)

\* -bound <= x <= bound
MoneyWithin(x, bound) ==
    /\ MoneyLeq(x, bound)
    /\ MoneyLeq(MoneySub(Dollars(0, bound.den), bound), x)

\* the last two calls were find_break_even_point(variable) with the default
\* range and analyze_variable(variable, the value that search returned)
AtBreakEven(variable) ==
    /\ search.pc = "done"
    /\ search.variable = variable
    /\ search.search_range = DefaultSearchRange
    /\ ret.op = "analyze_variable"
    /\ ret.args = [variable |-> variable, change_pct |-> Mid(search.low, search.high)]

\* C14: for revenue and for expenses, the surplus at the break-even point
\* returned for the default range is within 1 dollar of zero.
C14_BreakEvenWithinOneDollar ==
    \A variable \in {"revenue", "expenses"} :
        AtBreakEven(variable) =>
            MoneyWithin(ret.outcome.value.new_surplus, Dollars(1, SearchDen))

\* C14 amended: that surplus is within the effect of half the final interval
\* on the variable's base total, base_value / 2048 dollars (100 / 2048 of a
\* percentage point); it is 737 + 1815/2048 dollars for revenue and
\* -754 + 1086/2048 dollars for expenses.
C14_BreakEvenWithinHalfInterval ==
    \A variable \in {"revenue", "expenses"} :
        AtBreakEven(variable) =>
            /\ MoneyWithin(ret.outcome.value.new_surplus,
                           MoneyTimes(ret.outcome.value.base_value, 1, SearchDen))
            /\ ret.outcome.value.new_surplus =
                  IF variable = "revenue" THEN Money(737, 1815, SearchDen)
                  ELSE Money(-754, 1086, SearchDen)

\* the revenue break-even of the default range, -835/2048 of the whole
\* (-40.771484375 percent), analysed
C14_Witness ==
    /\ AtBreakEven("revenue")
    /\ ret.args.change_pct = Pct(-835, SearchDen)
    /\ search.iterations = 10
    /\ ~MoneyWithin(ret.outcome.value.new_surplus, Dollars(1, SearchDen))

RECURSIVE Pow2(_)
Pow2(n) == IF n = 0 THEN 1 ELSE 2 * Pow2(n - 1)

\* the interval (low, high) is the interval of search_range halved n times
HalvedTimes(low, high, search_range, n) ==
    CASE /\ low.kind = "finite" /\ high.kind = "finite"
         /\ search_range[1].kind = "finite" /\ search_range[2].kind = "finite" ->
            (high.num - low.num) * Pow2(n) = search_range[2].num - search_range[1].num
      [] /\ low.kind = "huge" /\ high.kind = "huge"
         /\ search_range[1].kind = "huge" /\ search_range[2].kind = "huge" ->
            (high.k - low.k) * Pow2(n) = search_range[2].k - search_range[1].k
      [] OTHER -> FALSE

\* what a search owes its caller while it runs and once it has returned
BisectionContract ==
    LET lo == search.search_range[1]
        hi == search.search_range[2]
    IN \* each iteration halves the interval
       /\ HalvedTimes(search.low, search.high, search.search_range, search.iterations)
       \* an iteration is made only while the interval is wider than 0.1
       \* percentage points: never more than log2(width / 0.1) + 1 of them
       /\ search.iterations > 0 =>
              (hi.num - lo.num) * 1000 > lo.den * Pow2(search.iterations - 1)
       /\ search.pc = "done" =>
              \* it stops as soon as high - low <= 0.1 percentage points
              /\ (search.high.num - search.low.num) * 1000 <= lo.den
              /\ ret.op = "find_break_even_point" =>
                    \* the midpoint of the final interval, inside the range
                    /\ ~ret.outcome.raised
                    /\ 2 * ret.outcome.value.num = search.low.num + search.high.num
                    /\ \/ lo.num <= ret.outcome.value.num /\ ret.outcome.value.num <= hi.num
                       \/ hi.num <= ret.outcome.value.num /\ ret.outcome.value.num <= lo.num
              /\ search.search_range = DefaultSearchRange => search.iterations = 10

C16_UnknownVariableRaises ==
    /\ (ret.op = "analyze_variable" /\ ret.args.variable \notin RecognizedVariables) =>
            ret.outcome = Raise("ValueError")
    /\ (/\ ret.op = "find_break_even_point"
        /\ ret.args.variable \notin RecognizedVariables) =>
            ret.outcome = Raise("ValueError")
    /\ sens = NewSensitivityModel

IsGrantDependency == ret.op = "analyze_grant_dependency"

\* the record the last analyze_grant_dependency call holds for a grant
GrantRecordOf(grant_name) == DictLookup(ret.outcome.value, grant_name).val

\* the unscaled baseline inflows with the disbursements of one grant removed
InflowsWithout(grant_name) ==
    [m \in MonthSet |->
        MONTHLY_INFLOWS[m] - DictGet(GRANT_INCOME[grant_name].timing, m, 0)]

\* C17: for every grant of the dataset, new_surplus is the year-end position
\* of a cash-flow run on the baseline inflows with only that grant's
\* disbursements removed, which is the baseline run's year-end position
\* minus the grant's amount (the disbursements of a grant sum to its
\* amount); critical is true exactly when new_surplus < 0; no record
\* depends on another grant.
C17_GrantDependency ==
    IsGrantDependency =>
        /\ DictKeys(ret.outcome.value) = DOMAIN GRANT_INCOME
        /\ \A g \in DOMAIN GRANT_INCOME :
              /\ GrantRecordOf(g).new_surplus =
                    get_year_end_position(
                        NewCashFlowModel(OPENING_BALANCE, Some(InflowsWithout(g)),
                                         Some(MONTHLY_EXPENSES)))
              /\ SumValues(GRANT_INCOME[g].timing) = GRANT_INCOME[g].amount
              /\ GrantRecordOf(g).new_surplus =
                    get_year_end_position(BaseRun) - GRANT_INCOME[g].amount
              /\ GrantRecordOf(g).critical <=> (GrantRecordOf(g).new_surplus < 0)
        /\ sens = NewSensitivityModel

\* the analysis has returned a record for each of the six grants; the last
\* grant of the loop, niete_ict, keeps 1265177 - 638535
C17_Witness ==
    /\ IsGrantDependency
    /\ Len(ret.outcome.value) = 6
    /\ GrantRecordOf("niete_ict").grant_amount = 638535
    /\ GrantRecordOf("niete_ict").new_surplus = 626642
    /\ ~GrantRecordOf("niete_ict").critical

\* C18: on the shipped dataset the record of grant "mulago" (950000) has the
\* year-end surplus 315175 and the critical flag False.
C18_MulagoRecord ==
    IsGrantDependency =>
        /\ GrantRecordOf("mulago").grant_amount = 950000
        /\ GrantRecordOf("mulago").new_surplus = 315175
        /\ GrantRecordOf("mulago").critical = FALSE

\* sum(grant["amount"] for grant in GRANT_INCOME.values())
SumOfGrantAmounts == SumSeq([i \in 1..Len(GRANT_KEYS) |-> GRANT_INCOME[GRANT_KEYS[i]].amount])

\* C19: the total grant income the engine uses, the denominator of
\* percentage_of_total and the base_value of the grant_total sensitivity, is
\* the sum of the amounts of all grants, so the percentage_of_total values
\* add up to 100.
C19_GrantTotalIsSum ==
    /\ IsGrantDependency =>
          /\ \A g \in DOMAIN GRANT_INCOME :
                GrantRecordOf(g).percentage_of_total.den = SumOfGrantAmounts
          /\ SumSeq([i \in 1..Len(GRANT_KEYS) |->
                        GrantRecordOf(GRANT_KEYS[i]).percentage_of_total.num]) =
                100 * GrantRecordOf(GRANT_KEYS[1]).percentage_of_total.den
    /\ (IsAnalysis /\ ret.args.variable = "grant_total") =>
          ret.outcome.value.base_value = SumOfGrantAmounts

---------------------------------------------------------------------------
(* Properties of the two engines together (checked under SpecEngine) *)

\* the result of run_scenario as a function of its arguments and the shipped
\* budget snapshot alone
ResultFromSnapshot(a) ==
    LET params == EffectiveParams(a.scenario_type, a.revenue_multiplier,
                                  a.expense_multiplier, a.grant_probability)
    IN ScenarioResult(a.scenario_type, params,
                      ScenarioCashFlow(MONTHLY_INFLOWS, MONTHLY_EXPENSES, params,
                                       a.excluded_grants))

\* C11: the result of run_scenario depends only on its parameters: at any
\* point of any sequence of scenario runs, sensitivity analyses,
\* grant-dependency analyses and break-even searches, a call returns the
\* result determined by its arguments and the shipped snapshot, so two calls
\* with identical parameters return identical results; no operation changes
\* the base inflow and expense maps of either model.
C11_RunScenarioDependsOnParameters ==
    /\ base_inflows = MONTHLY_INFLOWS
    /\ base_expenses = MONTHLY_EXPENSES
    /\ sens.base_inflows = MONTHLY_INFLOWS
    /\ sens.base_expenses = MONTHLY_EXPENSES
    /\ IsRun => ret.value = ResultFromSnapshot(ret.args)

\* a second run_scenario call of the same kind, made after a completed
\* break-even search, whose result is the one now cached for its kind
C11_Witness ==
    /\ ret.op = "run_scenario"
    /\ ncalls = 2
    /\ search.pc = "done"
    /\ DictKeys(scenarios) = {ret.args.scenario_type}
    /\ ret.args.scenario_type = "pessimistic"
    /\ CachedResult("pessimistic") = ret.value

---------------------------------------------------------------------------
(* Properties of get_minimum_cash_month (checked under SpecMinimum) *)

\* the calendar index of a month name
MonthIndex(month) == CHOOSE i \in 1..Len(MONTHS) : MONTHS[i] = month

\* C21: get_minimum_cash_month returns the position whose closing is the
\* smallest of the 12 closings, the earliest in calendar order when several
\* months tie; on the shipped dataset it is Jan with closing 672288.
C21_MinimumCashMonth ==
    cf_ret.op = "get_minimum_cash_month" =>
        LET p == cf_ret.value
            ps == cf.positions
        IN /\ Len(ps) = 12
           /\ p = ps[MonthIndex(p.month)]
           /\ \A k \in 1..12 : p.closing <= ps[k].closing
           /\ \A k \in 1..(MonthIndex(p.month) - 1) : ps[k].closing > p.closing
           /\ (cf_args = [opening_balance |-> OPENING_BALANCE, inflows |-> None,
                          expenses |-> None])
                 => (p.month = "Jan" /\ p.closing = 672288)

\* closings tie at the minimum from Jun to Nov and Jun is returned: an
\* expense in Jun, nothing else before Dec, and a larger inflow in Dec
C21_Witness ==
    /\ cf_ret.op = "get_minimum_cash_month"
    /\ cf_ret.value.month = "Jun"
    /\ cf.positions[6].closing = cf.positions[11].closing
    /\ cf.positions[12].closing > cf.positions[6].closing
    /\ cf.positions[1].closing > cf.positions[6].closing

---------------------------------------------------------------------------
(* Properties of analyze_revenue_delay (checked under SpecSensitivity) *)

\* the calendar positions whose inflow a delay of n months moves out of Jan..Dec
DroppedPositions(n) == {i \in 1..12 : (i + n) \notin 1..12}

\* sum of the base inflows of a set of calendar positions
SumOfPositions(S) == SumOver([i \in 1..12 |-> MONTHLY_INFLOWS[MONTHS[i]]], S)

\* C22: for every integer months_delayed N, analyze_revenue_delay moves the
\* base inflow of calendar position i to position i+N when that position is
\* within Jan..Dec and otherwise drops it (no 13th month, no wrap-around);
\* lost_revenue is the sum of the dropped inflows, new_total_inflows is the
\* total of the base inflows minus lost_revenue, and expenses are unchanged.
C22_RevenueDelayShifts ==
    ret.op = "analyze_revenue_delay" =>
        LET n == ret.args.months_delayed
        IN /\ ~ret.outcome.raised
           /\ ~ret.adjusted_inflows.raised
           /\ \A j \in 1..12 :
                 ret.adjusted_inflows.value[MONTHS[j]] =
                    IF (j - n) \in 1..12 THEN MONTHLY_INFLOWS[MONTHS[j - n]] ELSE 0
           /\ ret.outcome.value.lost_revenue = SumOfPositions(DroppedPositions(n))
           /\ ret.outcome.value.new_total_inflows =
                 SumValues(MONTHLY_INFLOWS) - ret.outcome.value.lost_revenue
           /\ ret.expenses = MONTHLY_EXPENSES

---------------------------------------------------------------------------
(* utils/calculations.py: simulate_grant_removal.  A str is modelled as the *)
(* sequence of its characters.                                             *)

\* the characters of each grant ID of GRANT_INCOME
KeyChars(key) ==
    CASE key = "prevail_general_ops" -> <<"p", "r", "e", "v", "a", "i", "l", "_", "g", "e", "n", "e", "r", "a", "l", "_", "o", "p", "s">>
      [] key = "prevail_implementation" -> <<"p", "r", "e", "v", "a", "i", "l", "_", "i", "m", "p", "l", "e", "m", "e", "n", "t", "a", "t", "i", "o", "n">>
      [] key = "prevail_data_collection" -> <<"p", "r", "e", "v", "a", "i", "l", "_", "d", "a", "t", "a", "_", "c", "o", "l", "l", "e", "c", "t", "i", "o", "n">>
      [] key = "dovetail" -> <<"d", "o", "v", "e", "t", "a", "i", "l">>
      [] key = "mulago" -> <<"m", "u", "l", "a", "g", "o">>
      [] key = "niete_ict" -> <<"n", "i", "e", "t", "e", "_", "i", "c", "t">>

\* str.lower() on the letters A to Z; every other character is unchanged
LowerOfLetter ==
    "A" :> "a" @@ "B" :> "b" @@ "C" :> "c" @@ "D" :> "d" @@ "E" :> "e" @@ "F" :> "f" @@
    "G" :> "g" @@ "H" :> "h" @@ "I" :> "i" @@ "J" :> "j" @@ "K" :> "k" @@ "L" :> "l" @@
    "M" :> "m" @@ "N" :> "n" @@ "O" :> "o" @@ "P" :> "p" @@ "Q" :> "q" @@ "R" :> "r" @@
    "S" :> "s" @@ "T" :> "t" @@ "U" :> "u" @@ "V" :> "v" @@ "W" :> "w" @@ "X" :> "x" @@
    "Y" :> "y" @@ "Z" :> "z"

Lower(name) ==
    [i \in 1..Len(name) |->
        IF name[i] \in DOMAIN LowerOfLetter THEN LowerOfLetter[name[i]] ELSE name[i]]

\* str.replace(" ", "_")
ReplaceSpaces(name) == [i \in 1..Len(name) |-> IF name[i] = " " THEN "_" ELSE name[i]]

\* a normalisation that does not lower-case
NormalizeCaseSensitive(grant_to_remove) == ReplaceSpaces(grant_to_remove)

\* grant_to_remove.lower().replace(" ", "_")
Normalize(grant_to_remove) == ReplaceSpaces(Lower(grant_to_remove))

\* `name in GRANT_INCOME`: the grant ID spelled by the characters, if any
KeyOf(name) ==
    IF \E key \in DOMAIN GRANT_INCOME : KeyChars(key) = name
    THEN Some(CHOOSE key \in DOMAIN GRANT_INCOME : KeyChars(key) = name)
    ELSE None

simulate_grant_removal(grant_to_remove) ==
    LET normalized == Normalize(grant_to_remove)
        key == KeyOf(normalized)
    IN IF ~key.given
       THEN Return([error |-> <<"Grant '", normalized, "' not found">>,
                    available_grants |-> GRANT_KEYS])
       ELSE LET removed_amount == GRANT_INCOME[key.val].amount
                new_total == TOTAL_GRANT_INCOME - removed_amount
                new_surplus == PROJECTED_SURPLUS - removed_amount
            IN Return([removed_amount |-> removed_amount,
                       new_total |-> new_total,
                       percentage_lost |-> Quot(removed_amount, TOTAL_GRANT_INCOME),
                       new_surplus |-> new_surplus,
                       original_surplus |-> PROJECTED_SURPLUS])

---------------------------------------------------------------------------
(* The three grant-loss simulations as a state machine: a caller calls     *)
(* simulate_grant_removal, ScenarioModel.simulate_grant_loss and           *)
(* SensitivityModel.analyze_grant_dependency in any order.                 *)

\* names a caller passes to simulate_grant_removal: grant IDs as written, in
\* other letter cases and with spaces, and names that match no grant
NameArgs ==
    {<<"m", "u", "l", "a", "g", "o">>,
     <<"M", "u", "l", "a", "g", "o">>,
     <<"M", "U", "L", "A", "G", "O">>,
     <<"n", "i", "e", "t", "e", " ", "i", "c", "t">>,
     <<"N", "i", "e", "t", "e", "_", "I", "C", "T">>,
     <<"P", "r", "e", "v", "a", "i", "l", " ", "G", "e", "n", "e", "r", "a", "l", " ", "O", "p", "s">>,
     <<"p", "r", "e", "v", "a", "i", "l", "_", "i", "m", "p", "l", "e", "m", "e", "n", "t", "a", "t", "i", "o", "n">>,
     <<"P", "R", "E", "V", "A", "I", "L", " ", "D", "A", "T", "A", " ", "C", "O", "L", "L", "E", "C", "T", "I", "O", "N">>,
     <<"d", "o", "v", "e", "t", "a", "i", "l">>,
     <<"n", "o", "s", "u", "c", "h">>,
     <<>>,
     <<"m", "u", "l", "a", "g", "o", " ">>,
     <<"n", "i", "e", "t", "e", " ", " ", "i", "c", "t">>,
     <<"M", "u", "l", "a", "g", "0">>}

\* grant keys a caller passes to simulate_grant_loss: every grant ID and a
\* key that is not in the dataset
AnyGrantKeyArgs == DOMAIN GRANT_INCOME \cup {"nosuch"}

SimulateGrantRemoval ==
    /\ \E grant_to_remove \in NameArgs :
        removal' = [op |-> "simulate_grant_removal",
                    args |-> [grant_to_remove |-> grant_to_remove],
                    outcome |-> simulate_grant_removal(grant_to_remove)]
    /\ UNCHANGED cf_vars
    /\ UNCHANGED sm_vars
    /\ UNCHANGED se_vars

SimulateGrantLossAny ==
    /\ ncalls < MaxRuns
    /\ \E grant_key \in AnyGrantKeyArgs :
          RunScenarioStep("simulate_grant_loss",
                          RunArgs("custom", None, None, None, Some(<<grant_key>>)))

InitGrantLoss == CfIdle /\ SmIdle /\ SeIdle /\ UtIdle

NextGrantLoss ==
    \/ SimulateGrantRemoval
    \/ SimulateGrantLossAny
    \/ AnalyzeGrantDependency

SpecGrantLoss == InitGrantLoss /\ [][NextGrantLoss]_vars

---------------------------------------------------------------------------
(* Properties of the grant-loss simulations (checked under SpecGrantLoss) *)

IsRemoval == removal.op = "simulate_grant_removal"

\* the name with every letter in lower case and every space replaced by "_"
Canonical(name) ==
    [i \in 1..Len(name) |->
        IF name[i] = " " THEN "_"
        ELSE IF name[i] \in DOMAIN LowerOfLetter THEN LowerOfLetter[name[i]]
        ELSE name[i]]

\* the grant IDs the canonical form of a name spells
MatchingKeys(name) == {key \in DOMAIN GRANT_INCOME : KeyChars(key) = Canonical(name)}

\* C23: simulate_grant_removal given a name that after lower-casing and
\* replacing spaces with underscores is no grant ID returns a result with an
\* error message and the list of all valid grant IDs, raises nothing and
\* changes no data; for a name that matches it returns removed_amount = the
\* grant's amount and new_total = total grant income - removed_amount.
C23_GrantRemoval ==
    [][(removal' # removal /\ removal'.op = "simulate_grant_removal") =>
          LET name == removal'.args.grant_to_remove
              out == removal'.outcome
          IN /\ ~out.raised
             /\ UNCHANGED <<cf_vars, sm_vars, se_vars>>
             /\ MatchingKeys(name) = {} =>
                   /\ DOMAIN out.value = {"error", "available_grants"}
                   /\ out.value.error = <<"Grant '", Canonical(name), "' not found">>
                   /\ Len(out.value.available_grants) = Cardinality(DOMAIN GRANT_INCOME)
                   /\ {out.value.available_grants[i] :
                          i \in 1..Len(out.value.available_grants)} = DOMAIN GRANT_INCOME
             /\ \A key \in MatchingKeys(name) :
                   /\ "error" \notin DOMAIN out.value
                   /\ out.value.removed_amount = GRANT_INCOME[key].amount
                   /\ out.value.new_total = TOTAL_GRANT_INCOME - out.value.removed_amount]_vars

\* "mulago " (a trailing space) is normalised to "mulago_", which is no
\* grant ID: the error result lists the six grant IDs
C23_Witness ==
    /\ IsRemoval
    /\ removal.args.grant_to_remove = <<"m", "u", "l", "a", "g", "o", " ">>
    /\ removal.outcome.value.error =
          <<"Grant '", <<"m", "u", "l", "a", "g", "o", "_">>, "' not found">>
    /\ removal.outcome.value.available_grants = GRANT_KEYS

IsGrantLoss == ret.op = "simulate_grant_loss"

\* the grant key the last simulate_grant_loss call was given
LostGrantKey == ret.args.excluded_grants.val[1]

\* C25: simulate_grant_loss given a grant key that is not in the dataset
\* produces a not-found outcome that identifies the valid grant IDs, not an
\* ordinary ScenarioResult.
C25_GrantLossNotFound ==
    (IsGrantLoss /\ LostGrantKey \notin DOMAIN GRANT_INCOME) =>
        /\ "year_end_surplus" \notin DOMAIN ret.value
        /\ "available_grants" \in DOMAIN ret.value
        /\ {ret.value.available_grants[i] : i \in 1..Len(ret.value.available_grants)} =
              DOMAIN GRANT_INCOME

\* the grant ID the last simulate_grant_removal call matched, if any
RemovedKeys == IF IsRemoval THEN MatchingKeys(removal.args.grant_to_remove) ELSE {}

\* C28: for every grant ID g the three simulations of the loss of g agree on
\* the resulting surplus: simulate_grant_removal(g)['new_surplus'] =
\* analyze_grant_dependency()[g]['new_surplus'] =
\* simulate_grant_loss(g).year_end_surplus.
C28_GrantLossAgreement ==
    \A g \in RemovedKeys :
        /\ IsGrantDependency =>
              removal.outcome.value.new_surplus = GrantRecordOf(g).new_surplus
        /\ (IsGrantLoss /\ LostGrantKey = g) =>
              /\ ToFixed(removal.outcome.value.new_surplus) = ret.value.year_end_surplus
              /\ ret.value.year_end_surplus =
                    ToFixed(DictLookup(analyze_grant_dependency(sens).results, g).val.new_surplus)

---------------------------------------------------------------------------
(* Further properties of the scenario engine (checked under SpecScenario) *)

\* C26: every result of run_scenario with kind CUSTOM, simulate_grant_loss
\* included, carries the display name 'Custom Scenario', and the cached
\* results of distinct kinds have distinct display names, so
\* compare_scenarios shows one entry per cached scenario.
C26_CustomDisplayName ==
    /\ (IsRun /\ ret.args.scenario_type = "custom") => ret.value.name = "Custom Scenario"
    /\ \A i, j \in 1..Len(scenarios) :
          i # j => scenarios[i].value.name # scenarios[j].value.name
    /\ ret.op = "compare_scenarios" => Cardinality(DOMAIN ret.value) = Len(scenarios)

\* the least of the closings reported for one scenario
LeastClosing(flows) ==
    CHOOSE c \in {flows[m] : m \in DOMAIN flows} : \A m \in DOMAIN flows : c <= flows[m]

\* C27: after any sequence of run_scenario calls, for every cached scenario
\* the December closing get_scenario_cash_flows reports under the scenario's
\* name equals the cached year_end_surplus and the smallest closing it
\* reports equals the cached minimum_cash.
C27_CashFlowsMatchCache ==
    ret.op = "get_scenario_cash_flows" =>
        \A i \in 1..Len(scenarios) :
            LET result == scenarios[i].value
            IN /\ result.name \in DOMAIN ret.value
               /\ ret.value[result.name]["Dec"] = result.year_end_surplus
               /\ LeastClosing(ret.value[result.name]) = result.minimum_cash

---------------------------------------------------------------------------
(* The bracket of the bisection (checked under SpecSensitivity) *)

\* x < 0 for a Money or an overflowed float
IsNegative(x) ==
    CASE x.kind = "finite" -> x.whole < 0
      [] x.kind = "-inf" -> TRUE
      [] OTHER -> FALSE

\* new_surplus at a change of the variable
SurplusAt(variable, change_pct) == analyze_variable(sens, variable, change_pct).value.new_surplus

\* C24: for revenue, expenses and grant_total with the default search range
\* every iteration of the bisection keeps the zero of new_surplus bracketed:
\* the surplus at low and the surplus at high never have the same strict
\* sign, so the returned midpoint is within 0.05 percentage points of the
\* change that makes the surplus zero.
C24_BisectionKeepsBracket ==
    \A variable \in RecognizedVariables :
        (/\ search.pc \in {"loop", "done"}
         /\ search.variable = variable
         /\ search.search_range = DefaultSearchRange) =>
            /\ ~(IsPositive(SurplusAt(variable, search.low)) /\
                 IsPositive(SurplusAt(variable, search.high)))
            /\ ~(IsNegative(SurplusAt(variable, search.low)) /\
                 IsNegative(SurplusAt(variable, search.high)))

---------------------------------------------------------------------------
(* The figures the dashboard states (app.py, Key Observations) *)

\* f"{x:+.0f}" of a finite percentage num/den of the whole: the nearest
\* integer to 100 * num / den, a tie going to the even one
RoundedPercent(x) ==
    LET twice == 200 * x.num + x.den
        q == twice \div (2 * x.den)
    IN IF twice % (2 * x.den) = 0 /\ q % 2 = 1 THEN q - 1 ELSE q

\* C29: under the pessimistic scenario with its default multipliers every
\* month's closing is positive, so minimum_cash and year_end_surplus are
\* positive; in the base case every month's closing stays above 500000, so
\* get_low_cash_months(500000) is empty.
C29_WorstCaseStaysPositive ==
    (ret.op = "run_scenario" /\ NoOverrides(ret.args) /\ ~ret.args.excluded_grants.given) =>
        /\ ret.args.scenario_type = "pessimistic" =>
              /\ \A i \in 1..Len(ret.model.positions) : ret.model.positions[i].closing > 0
              /\ ret.value.minimum_cash > 0
              /\ ret.value.year_end_surplus > 0
        /\ ret.args.scenario_type = "base" =>
              /\ \A i \in 1..Len(ret.model.positions) :
                    ret.model.positions[i].closing > ToFixed(500000)
              /\ get_low_cash_months(ret.model, ToFixed(500000)) = <<>>

\* C30: with the default search range find_break_even_point('revenue')
\* rounds to -49 and find_break_even_point('expenses') rounds to +49.
C30_BreakEvenFortyNine ==
    (/\ ret.op = "find_break_even_point"
     /\ ret.args.search_range = DefaultSearchRange
     /\ ~ret.outcome.raised) =>
        /\ ret.args.variable = "revenue" => RoundedPercent(ret.outcome.value) = -49
        /\ ret.args.variable = "expenses" => RoundedPercent(ret.outcome.value) = 49

====
